---- MODULE Spec2Model ----
(***************************************************************************)
(* The QC inspector of gemvision: the inspection service                   *)
(* (backend/services/qc_inspector_service.py) and the triage and rework    *)
(* endpoints (backend/routers/qc_inspector.py) over the qc_inspections and *)
(* rework_jobs tables (backend/models/database.py).                        *)
(*                                                                         *)
(* Confidences are kept in hundredths (0.93 is 93), the unrounded draws of *)
(* random.uniform in thousandths (0.934 is 934), multipliers in hundredths *)
(* (0.75 is 75).  None is the Python None / SQL NULL of an unset column.   *)
(* Positions and sizes of bounding boxes are in pixels.                    *)
(***************************************************************************)
EXTENDS Integers, Sequences, FiniteSets, TLC

VARIABLES
    mode,                  \* QCInspectorService.mode (settings.qc_mode)
    confidence_threshold,  \* QCInspectorService.confidence_threshold
    pc,                    \* position of the caller of inspect_file
    call,                  \* the last call of the service and what it returned
    report,                \* the dictionary inspect_file returned
    qc_inspections,        \* table qc_inspections, row i has id i
    rework_jobs,           \* table rework_jobs, row i has id i
    users,                 \* MongoDB collection users: role and qc_inspector trials
    handlers,              \* the requests in flight and what each has read
    request,               \* the request the last endpoint call carried
    response,              \* the response the last endpoint call gave
    now                    \* datetime.utcnow(), in ticks

vars == <<mode, confidence_threshold, pc, call, report,
          qc_inspections, rework_jobs, users, handlers, request, response, now>>

serviceVars == <<mode, confidence_threshold>>
inspectVars == <<pc, call, report>>
storeVars == <<qc_inspections, rework_jobs, users, handlers, request, response, now>>

\* None in a text column or field
None == "None"

\* None in an integer or timestamp column (ids and clock ticks start at 1)
Null == 0

\* what an endpoint answers: the HTTP status and the fields of the body
Response(status_code, inspection_id, rework_job_id, decision, status) ==
    [ status_code |-> status_code,
      inspection_id |-> inspection_id,
      rework_job_id |-> rework_job_id,
      decision |-> decision,
      status |-> status ]

\* before the first call
NoRequest == [op |-> None]
NoResponse == Response(Null, Null, Null, None, None)

\* a missing row that goes unchecked: the attribute access on None raises
\* and the handler answers 500
NotFoundUnchecked == Response(500, Null, Null, None, None)

\* raise HTTPException(status_code=404, detail="... not found")
NotFound == Response(404, Null, Null, None, None)

(***************************************************************************)
(* Configuration and enumerations                                          *)
(***************************************************************************)

DEFECT_TYPES ==
    <<"scratch", "stone_misalignment", "surface_discoloration", "prong_damage",
      "polish_defect", "casting_porosity", "size_deviation", "engraving_error">>

SEVERITY_LEVELS == <<"low", "medium", "high">>

FileTypes == {"image", "cad", "pdf"}

Modes == {"simulated", "ml"}

\* settings.qc_confidence_threshold, 0.7 unless the environment overrides it
qc_confidence_threshold == 70

\* the thresholds the service is configured with in the model
Thresholds == {qc_confidence_threshold, 90}

\* width, height = 1024, 1024: the resolution taken for CAD and PDF files
DefaultResolution == 1024

(***************************************************************************)
(* The users and their trials (backend/models/mongodb.py), and the         *)
(* requests in flight                                                      *)
(***************************************************************************)

\* requests in flight at once where handlers interleave
MaxHandlers == 2

\* no request is in flight
NoHandlers == [h \in 1..MaxHandlers |-> [pc |-> "idle"]]

\* "qc_inspector": {"used": 0, "limit": 3}: the trials of a new user
TrialLimit == 3

\* UserModel.create_user: the user document, of which the role, the admin
\* flag and trial_limits.qc_inspector are kept
NewUser(role) == [role |-> role, is_admin |-> FALSE, used |-> 0, limit |-> TrialLimit]

\* TrialUsageModel.check_trial_limit(user_id, "qc_inspector") on the
\* user's document
check_trial_limit(user) ==
    IF user.role = "unlimited" \/ user.is_admin
    THEN [allowed |-> TRUE, unlimited |-> TRUE]
    ELSE [allowed |-> user.limit - user.used > 0, unlimited |-> FALSE]

\* TrialUsageModel.record_usage(user_id, "qc_inspector"):
\* {"$inc": {"trial_limits.qc_inspector.used": 1}}
record_usage(user_id) == [users EXCEPT ![user_id].used = @ + 1]

(***************************************************************************)
(* Arithmetic of the detectors and of the confidence adjustment            *)
(***************************************************************************)

\* round(confidence, 2) of an unrounded draw given in thousandths
RoundDraw(u) == (u + 5) \div 10

\* Products c * m (in 1/10000) that lie exactly between two hundredths and
\* that Python's round(c/100 * m/100, 2) rounds up; the other ties round
\* down.  The direction of a tie is that of the IEEE-754 double product.
TiesRoundedUp == {6450, 6750, 7650}

\* a product cut to two decimals instead of rounded
RoundProductDown(c, m) == (c * m) \div 100

\* round(defect["confidence"] * confidence_multiplier, 2)
RoundProduct(c, m) ==
    LET exact == c * m
        q == exact \div 100
        r == exact % 100
    IN  IF r > 50 THEN q + 1
        ELSE IF r < 50 THEN q
        ELSE IF exact \in TiesRoundedUp THEN q + 1 ELSE q

\* a severity with the cuts at 0.85 and 0.75
SimulatedSeverityLowerCuts(u) ==
    IF u > 850 THEN "high"
    ELSE IF u > 750 THEN "medium"
    ELSE "low"

\* the severity _generate_simulated_defects gives an unrounded confidence
SimulatedSeverity(u) ==
    IF u > 880 THEN "high"
    ELSE IF u > 780 THEN "medium"
    ELSE "low"

\* a severity with the upper cut at 0.95
HeuristicSeverityHigherCut(u, area3) ==
    IF u > 950 \/ area3 THEN "high"
    ELSE IF u > 780 THEN "medium"
    ELSE "low"

\* the severity _analyze_image_for_defects gives; area3 is w*h > 3% of the image
HeuristicSeverity(u, area3) ==
    IF u > 880 \/ area3 THEN "high"
    ELSE IF u > 780 THEN "medium"
    ELSE "low"

\* the weighted draw of the defect type; rand is random.random() in hundredths
WeightedType(rand) ==
    IF rand < 25 THEN "scratch"
    ELSE IF rand < 45 THEN "stone_misalignment"
    ELSE IF rand < 60 THEN "surface_discoloration"
    ELSE IF rand < 75 THEN "prong_damage"
    ELSE IF rand < 90 THEN "polish_defect"
    ELSE "casting_porosity"

Min(a, b) == IF a < b THEN a ELSE b

Max(a, b) == IF a > b THEN a ELSE b

\* int(size * pct / 100) of a non-negative size, as in int(image_width * 0.2)
Fraction(size, pct) == (size * pct) \div 100

\* random.randint(int(size * 0.2), int(size * 0.8)): a random position
RandomPositions(size) == Fraction(size, 20)..Fraction(size, 80)

\* random.randint(int(size * 0.05), int(size * 0.15)): a random extent
RandomExtents(size) == Fraction(size, 5)..Fraction(size, 15)

\* the bbox _generate_simulated_defects builds around the point (x, y)
SimulatedBBox(x, y, w, h) ==
    [ x |-> Max(0, x - w \div 2),
      y |-> Max(0, y - h \div 2),
      width |-> w,
      height |-> h ]

\* a bbox moved into the image whose extent is not cut to the image
HeuristicBBoxUncut(width, height, x, y, w, h) ==
    [ x |-> Max(0, Min(x, width - w)),
      y |-> Max(0, Min(y, height - h)),
      width |-> w,
      height |-> h ]

\* the bbox _analyze_image_for_defects clips to an image of width by height
HeuristicBBox(width, height, x, y, w, h) ==
    [ x |-> Max(0, Min(x, width - w)),
      y |-> Max(0, Min(y, height - h)),
      width |-> Min(w, width),
      height |-> Min(h, height) ]

\* w * h > (image.width * image.height * pct / 100)
ExceedsArea(width, height, w, h, pct) == w * h * 100 > width * height * pct

\* defect_type.replace("_", " ").title()
Label(defect_type) ==
    CASE defect_type = "scratch" -> "Scratch"
      [] defect_type = "stone_misalignment" -> "Stone Misalignment"
      [] defect_type = "surface_discoloration" -> "Surface Discoloration"
      [] defect_type = "prong_damage" -> "Prong Damage"
      [] defect_type = "polish_defect" -> "Polish Defect"
      [] defect_type = "casting_porosity" -> "Casting Porosity"
      [] defect_type = "size_deviation" -> "Size Deviation"
      [] defect_type = "engraving_error" -> "Engraving Error"

get_defect_description(defect_type) ==
    CASE defect_type = "scratch" -> "Surface scratch detected on metal finish"
      [] defect_type = "stone_misalignment" -> "Stone appears misaligned or loose in setting"
      [] defect_type = "surface_discoloration" -> "Discoloration or tarnish detected on surface"
      [] defect_type = "prong_damage" -> "Prong appears damaged or bent"
      [] defect_type = "polish_defect" -> "Inconsistent polish or surface finish"
      [] defect_type = "casting_porosity" -> "Porosity or air pockets in casting"
      [] defect_type = "size_deviation" -> "Dimension appears outside tolerance"
      [] defect_type = "engraving_error" -> "Engraving appears incorrect or damaged"
      [] OTHER -> "Defect detected"

(***************************************************************************)
(* The detectors.  A draw is what the random source gives one defect; the  *)
(* defect ids (uuid4) are distinct, here the position in the list.         *)
(***************************************************************************)

\* A draw of _generate_simulated_defects for one defect: the unrounded
\* random.uniform(0.75, 0.95), the index of random.choice(DEFECT_TYPES) and
\* the random position (x, y) and size (w, h) in an image of the default
\* resolution.
SimulatedDraw(u, choice, x, y, w, h) ==
    [u |-> u, choice |-> choice, x |-> x, y |-> y, w |-> w, h |-> h]

\* The sample holds both ends of the band and both sides of each severity
\* threshold and of each multiplier's cut at the thresholds.
SimulatedDraws ==
    { SimulatedDraw(750, 1, 204, 204, 51, 51),
      SimulatedDraw(774, 2, 819, 819, 153, 153),
      SimulatedDraw(779, 3, 204, 819, 153, 51),
      SimulatedDraw(781, 4, 512, 512, 100, 100),
      SimulatedDraw(812, 5, 300, 700, 60, 140),
      SimulatedDraw(820, 6, 700, 300, 140, 60),
      SimulatedDraw(878, 7, 512, 204, 51, 153),
      SimulatedDraw(882, 8, 819, 204, 52, 152),
      SimulatedDraw(921, 1, 400, 600, 77, 99),
      SimulatedDraw(927, 3, 600, 400, 99, 77),
      SimulatedDraw(950, 5, 819, 512, 153, 51) }

\* A draw of _analyze_image_for_defects for one defect: u1 is
\* random.uniform(0.93, 0.97), u2 is random.uniform(0.94, 0.98), rand is
\* random.random() in hundredths, and (x, y, w, h) is the rectangle, taken
\* from a contour and varied or placed at random, in an image of the
\* default resolution.
HeuristicDraw(u1, u2, rand, x, y, w, h) ==
    [u1 |-> u1, u2 |-> u2, rand |-> rand, x |-> x, y |-> y, w |-> w, h |-> h]

\* The sample holds rectangles below 2%, between 2% and 3%, and above 3% of
\* the image, and one that reaches over the right and lower edge.
HeuristicDraws ==
    { HeuristicDraw(930, 940, 10, 300, 400, 100, 100),
      HeuristicDraw(934, 944, 30, 0, 0, 20, 20),
      HeuristicDraw(946, 955, 20, 600, 700, 120, 90),
      HeuristicDraw(952, 961, 50, 500, 200, 160, 150),
      HeuristicDraw(970, 980, 70, 1000, 1010, 100, 100),
      HeuristicDraw(930, 940, 80, 400, 300, 200, 200),
      HeuristicDraw(970, 980, 95, 900, 900, 200, 200) }

\* a defect whose severity is taken from the rounded confidence
SimulatedDefectSeverityOfRounded(i, d) ==
    [ id |-> i,
      type |-> DEFECT_TYPES[d.choice],
      label |-> Label(DEFECT_TYPES[d.choice]),
      bbox |-> SimulatedBBox(d.x, d.y, d.w, d.h),
      confidence |-> RoundDraw(d.u),
      severity |-> SimulatedSeverity(RoundDraw(d.u) * 10),
      description |-> get_defect_description(DEFECT_TYPES[d.choice]) ]

\* one defect of _generate_simulated_defects
SimulatedDefect(i, d) ==
    [ id |-> i,
      type |-> DEFECT_TYPES[d.choice],
      label |-> Label(DEFECT_TYPES[d.choice]),
      bbox |-> SimulatedBBox(d.x, d.y, d.w, d.h),
      confidence |-> RoundDraw(d.u),
      severity |-> SimulatedSeverity(d.u),
      description |-> get_defect_description(DEFECT_TYPES[d.choice]) ]

\* one defect of _analyze_image_for_defects
HeuristicDefect(i, d) ==
    LET area2 == ExceedsArea(DefaultResolution, DefaultResolution, d.w, d.h, 2)
        area3 == ExceedsArea(DefaultResolution, DefaultResolution, d.w, d.h, 3)
        u == IF area2 THEN d.u2 ELSE d.u1
    IN  [ id |-> i,
          type |-> WeightedType(d.rand),
          label |-> Label(WeightedType(d.rand)),
          bbox |-> HeuristicBBox(DefaultResolution, DefaultResolution, d.x, d.y, d.w, d.h),
          confidence |-> RoundDraw(u),
          severity |-> HeuristicSeverity(u, area3),
          description |-> get_defect_description(WeightedType(d.rand)) ]

\* the sequences of n draws from a set
DrawSeqs(S, lo, hi) == UNION { [1..n -> S] : n \in lo..hi }

\* the defects list either generator builds from its draws
SimulatedDefects(ds) == [i \in 1..Len(ds) |-> SimulatedDefect(i, ds[i])]
HeuristicDefects(ds) == [i \in 1..Len(ds) |-> HeuristicDefect(i, ds[i])]

\* _generate_simulated_defects: random.randint(1, 3) defects
generate_simulated_defects ==
    { SimulatedDefects(ds) : ds \in DrawSeqs(SimulatedDraws, 1, 3) }

\* _analyze_image_for_defects: random.randint(2, 4) defects
analyze_image_for_defects ==
    { HeuristicDefects(ds) : ds \in DrawSeqs(HeuristicDraws, 2, 4) }

(***************************************************************************)
(* inspect_file                                                            *)
(***************************************************************************)

\* a choice of branch by the configured mode alone
use_simulated_by_mode(force_simulated, m) == m = "simulated"

\* use_simulated = force_simulated or self.mode == "simulated"
use_simulated(force_simulated, m) == force_simulated \/ m = "simulated"

\* _detect_with_ml falls back to the simulated generator
detect_with_ml == generate_simulated_defects

\* The detector of a call and the lists it can return.  analysis_fails is
\* the except branch of the image analysis (the image cannot be opened or
\* analysed), which falls back to the simulated generator.
Detector(file_type, simulated, analysis_fails) ==
    IF simulated
    THEN IF file_type = "image" /\ ~analysis_fails THEN "heuristic" ELSE "random"
    ELSE "ml"

Detections(detector) ==
    CASE detector = "heuristic" -> analyze_image_for_defects
      [] detector = "random" -> generate_simulated_defects
      [] detector = "ml" -> detect_with_ml

\* draws of which every detector makes one to three
DetectorDrawsOneToThree(detector) ==
    IF detector = "heuristic"
    THEN DrawSeqs(HeuristicDraws, 1, 3)
    ELSE DrawSeqs(SimulatedDraws, 1, 3)

\* the draws a detector can make in one call: random.randint(2, 4) defects
\* of the image analysis, random.randint(1, 3) of the simulated generator
DetectorDraws(detector) ==
    IF detector = "heuristic"
    THEN DrawSeqs(HeuristicDraws, 2, 4)
    ELSE DrawSeqs(SimulatedDraws, 1, 3)

\* the defects list a detector returns for its draws
Detect(detector, draws) ==
    IF detector = "heuristic" THEN HeuristicDefects(draws) ELSE SimulatedDefects(draws)

\* a multiplier chosen by the file type first
confidence_multiplier_by_file_type(file_type, has_cad_file) ==
    IF file_type = "pdf" THEN 85
    ELSE IF file_type = "image" THEN 90
    ELSE IF ~has_cad_file THEN 75
    ELSE 100

\* the confidence multiplier of a call, in hundredths
confidence_multiplier(file_type, has_cad_file) ==
    IF ~has_cad_file THEN 75
    ELSE IF file_type = "pdf" THEN 85
    ELSE IF file_type = "image" THEN 90
    ELSE 100

\* an adjustment that also takes the severity anew from the adjusted confidence
AdjustConfidenceAndSeverity(defects, multiplier) ==
    [ i \in 1..Len(defects) |->
        [ id |-> defects[i].id,
          type |-> defects[i].type,
          label |-> defects[i].label,
          bbox |-> defects[i].bbox,
          confidence |-> RoundProduct(defects[i].confidence, multiplier),
          severity |-> SimulatedSeverity(RoundProduct(defects[i].confidence, multiplier) * 10),
          description |-> defects[i].description,
          adjusted_confidence |-> (multiplier < 100) ] ]

\* the loop that adjusts every defect in place
AdjustConfidence(defects, multiplier) ==
    [ i \in 1..Len(defects) |->
        [ id |-> defects[i].id,
          type |-> defects[i].type,
          label |-> defects[i].label,
          bbox |-> defects[i].bbox,
          confidence |-> RoundProduct(defects[i].confidence, multiplier),
          severity |-> defects[i].severity,
          description |-> defects[i].description,
          adjusted_confidence |-> (multiplier < 100) ] ]

KeepsDefect(d, threshold) == d.confidence >= threshold

\* defects = [d for d in defects if d["confidence"] >= self.confidence_threshold]
FilterByThreshold(defects, threshold) ==
    SelectSeq(defects, LAMBDA d : KeepsDefect(d, threshold))

\* a status that looks for medium defects before high ones
DetermineStatusMediumFirst(defects) ==
    IF Len(defects) = 0 THEN "passed"
    ELSE IF \E i \in 1..Len(defects) : defects[i].severity = "medium" THEN "review"
    ELSE IF \E i \in 1..Len(defects) : defects[i].severity = "high" THEN "failed"
    ELSE "passed_with_notes"

\* the overall status of the filtered defects
DetermineStatus(defects) ==
    IF Len(defects) = 0 THEN "passed"
    ELSE IF \E i \in 1..Len(defects) : defects[i].severity = "high" THEN "failed"
    ELSE IF \E i \in 1..Len(defects) : defects[i].severity = "medium" THEN "review"
    ELSE "passed_with_notes"

Recommendation(status) ==
    CASE status = "passed" -> "No defects detected. Item passes QC."
      [] status = "failed" -> "Critical defects detected. Send for rework."
      [] status = "review" -> "Moderate defects detected. Manual review recommended."
      [] OTHER -> "Minor defects detected. Acceptable but document findings."

\* a note chosen by the file type alone
get_confidence_note_by_file_type(file_type, has_cad_file) ==
    IF file_type = "cad"
    THEN "High confidence: CAD file analysis provides precise measurements."
    ELSE IF file_type = "image"
    THEN "Good confidence: Image analysis with reference data."
    ELSE "Analysis completed with available data."

\* _get_confidence_note
get_confidence_note(file_type, has_cad_file) ==
    IF file_type = "cad" /\ has_cad_file
    THEN "High confidence: CAD file analysis provides precise measurements."
    ELSE IF file_type = "image" /\ ~has_cad_file
    THEN "Reduced confidence: Image-only analysis. CAD file recommended for better accuracy."
    ELSE IF file_type = "pdf" /\ ~has_cad_file
    THEN "Moderate confidence: PDF analysis. CAD file recommended for precise defect detection."
    ELSE IF file_type = "image"
    THEN "Good confidence: Image analysis with reference data."
    ELSE "Analysis completed with available data."

\* an inspect_file that filters the raw confidences and adjusts afterwards
inspect_file_filter_first(file_type, has_cad_file, simulated, detected, threshold) ==
    LET kept == FilterByThreshold(detected, threshold)
        defects == AdjustConfidence(kept, confidence_multiplier(file_type, has_cad_file))
        status == DetermineStatus(defects)
    IN  [ status |-> status,
          recommendation |-> Recommendation(status),
          defects |-> defects,
          defect_count |-> Len(defects),
          detection_mode |-> IF simulated THEN "simulated" ELSE "ml",
          confidence_threshold |-> threshold,
          file_type |-> file_type,
          has_cad_file |-> has_cad_file,
          confidence_note |-> get_confidence_note(file_type, has_cad_file) ]

\* an inspect_file that decides the status before it filters
inspect_file_status_first(file_type, has_cad_file, simulated, detected, threshold) ==
    LET adjusted == AdjustConfidence(detected, confidence_multiplier(file_type, has_cad_file))
        defects == FilterByThreshold(adjusted, threshold)
        status == DetermineStatus(adjusted)
    IN  [ status |-> status,
          recommendation |-> Recommendation(status),
          defects |-> defects,
          defect_count |-> Len(defects),
          detection_mode |-> IF simulated THEN "simulated" ELSE "ml",
          confidence_threshold |-> threshold,
          file_type |-> file_type,
          has_cad_file |-> has_cad_file,
          confidence_note |-> get_confidence_note(file_type, has_cad_file) ]

\* the result of inspect_file, given what the detector returned
inspect_file(file_type, has_cad_file, simulated, detected, threshold) ==
    LET adjusted == AdjustConfidence(detected, confidence_multiplier(file_type, has_cad_file))
        defects == FilterByThreshold(adjusted, threshold)
        status == DetermineStatus(defects)
    IN  [ status |-> status,
          recommendation |-> Recommendation(status),
          defects |-> defects,
          defect_count |-> Len(defects),
          detection_mode |-> IF simulated THEN "simulated" ELSE "ml",
          confidence_threshold |-> threshold,
          file_type |-> file_type,
          has_cad_file |-> has_cad_file,
          confidence_note |-> get_confidence_note(file_type, has_cad_file) ]

NoCall == [op |-> None]
NoReport == [status |-> None]

\* a caller runs inspect_file to its return
InspectFile ==
    /\ pc = "idle"
    /\ \E file_type \in FileTypes, has_cad_file \in BOOLEAN, force_simulated \in BOOLEAN :
         LET simulated == use_simulated(force_simulated, mode) IN
         \E analysis_fails \in (IF simulated /\ file_type = "image" THEN BOOLEAN ELSE {FALSE}) :
           LET detector == Detector(file_type, simulated, analysis_fails) IN
           \E draws \in DetectorDraws(detector) :
             LET detected == Detect(detector, draws) IN
             /\ call' = [ op |-> "inspect_file",
                          file_type |-> file_type,
                          has_cad_file |-> has_cad_file,
                          force_simulated |-> force_simulated,
                          detector |-> detector,
                          draws |-> draws,
                          detected |-> detected ]
             /\ report' = inspect_file(file_type, has_cad_file, simulated,
                                       detected, confidence_threshold)
    /\ pc' = "returned"
    /\ UNCHANGED <<serviceVars, storeVars>>

\* the caller takes the report; the service keeps nothing of the call
ReturnReport ==
    /\ pc = "returned"
    /\ pc' = "idle"
    /\ call' = NoCall
    /\ report' = NoReport
    /\ UNCHANGED <<serviceVars, storeVars>>

InitService ==
    /\ mode \in Modes
    /\ confidence_threshold \in Thresholds

InitInspect ==
    /\ InitService
    /\ pc = "idle"
    /\ call = NoCall
    /\ report = NoReport
    /\ qc_inspections = <<>>
    /\ rework_jobs = <<>>
    /\ users = [user_id \in {"mei"} |-> NewUser("trial")]
    /\ handlers = NoHandlers
    /\ request = NoRequest
    /\ response = NoResponse
    /\ now = 1

NextInspect == InspectFile \/ ReturnReport

SpecInspect == InitInspect /\ [][NextInspect]_vars

(***************************************************************************)
(* The bounding box of one defect, for images of any size (specification   *)
(* SpecBBox): a generator places one defect in an image and returns its    *)
(* bbox.                                                                   *)
(***************************************************************************)

\* image sizes <<width, height>>, from one pixel upwards
ImageSizes ==
    { <<1, 1>>, <<2, 1>>, <<1, 3>>, <<7, 5>>, <<20, 13>>, <<21, 40>>, <<40, 21>> }

\* the extents of the rectangles cv2.boundingRect can give along one side
\* of an image: one pixel, half the side, the whole side
ContourExtents(size) == {1, (size + 1) \div 2, size}

\* random.randint(-10, 10) and random.randint(-5, 5): both ends and none
PositionVariations == {-10, 0, 10}
ExtentVariations == {-5, 0, 5}

\* _generate_simulated_defects places a defect at random
SimulatedDefectBBox ==
    /\ pc = "idle"
    /\ \E size \in ImageSizes :
         \E x \in RandomPositions(size[1]), y \in RandomPositions(size[2]),
            w \in RandomExtents(size[1]), h \in RandomExtents(size[2]) :
           /\ call' = [ op |-> "generate_simulated_defects",
                        width |-> size[1], height |-> size[2],
                        x |-> x, y |-> y, w |-> w, h |-> h ]
           /\ report' = [bbox |-> SimulatedBBox(x, y, w, h)]
    /\ pc' = "returned"
    /\ UNCHANGED <<serviceVars, storeVars>>

\* _analyze_image_for_defects places a defect on a contour: the bounding
\* rectangle lies in the image, at its left or right (upper or lower) edge
\* here; it is moved by up to 10 pixels and resized by up to 5, to no less
\* than 20
ContourDefectBBox ==
    /\ pc = "idle"
    /\ \E size \in ImageSizes :
         \E w0 \in ContourExtents(size[1]), h0 \in ContourExtents(size[2]) :
         \E x0 \in {0, size[1] - w0}, y0 \in {0, size[2] - h0} :
         \E dx \in PositionVariations, dy \in PositionVariations,
            dw \in ExtentVariations, dh \in ExtentVariations :
           LET x == x0 + dx
               y == y0 + dy
               w == Max(20, w0 + dw)
               h == Max(20, h0 + dh)
           IN  /\ call' = [ op |-> "analyze_image_for_defects",
                            width |-> size[1], height |-> size[2],
                            x |-> x, y |-> y, w |-> w, h |-> h ]
               /\ report' = [bbox |-> HeuristicBBox(size[1], size[2], x, y, w, h)]
    /\ pc' = "returned"
    /\ UNCHANGED <<serviceVars, storeVars>>

\* _analyze_image_for_defects places a defect at random when the contours
\* are used up
RandomDefectBBox ==
    /\ pc = "idle"
    /\ \E size \in ImageSizes :
         \E x \in RandomPositions(size[1]), y \in RandomPositions(size[2]),
            w \in RandomExtents(size[1]), h \in RandomExtents(size[2]) :
           /\ call' = [ op |-> "analyze_image_for_defects",
                        width |-> size[1], height |-> size[2],
                        x |-> x, y |-> y, w |-> w, h |-> h ]
           /\ report' = [bbox |-> HeuristicBBox(size[1], size[2], x, y, w, h)]
    /\ pc' = "returned"
    /\ UNCHANGED <<serviceVars, storeVars>>

NextBBox == SimulatedDefectBBox \/ ContourDefectBBox \/ RandomDefectBBox \/ ReturnReport

SpecBBox == InitInspect /\ [][NextBBox]_vars

(***************************************************************************)
(* The tables and the service's create_rework_job                          *)
(***************************************************************************)

\* endpoint calls a behaviour of the model makes
MaxCalls == 3

\* QCInspection(...) as inspect_item stores it, with the column defaults
NewInspection(id, user_id, result, t) ==
    [ id |-> id,
      user_id |-> user_id,
      detections |-> result.defects,
      detection_mode |-> result.detection_mode,
      confidence_threshold |-> result.confidence_threshold,
      operator_decision |-> None,
      operator_notes |-> None,
      is_false_positive |-> FALSE,
      rework_job_id |-> Null,
      inspected_at |-> t ]

\* selected_defects: Optional[List[str]]; of a list only the membership of
\* ids is read, so it is kept as the set of its ids
Selected(ids) == [given |-> TRUE, ids |-> ids]
NotSelected == [given |-> FALSE, ids |-> {}]

\* if request.selected_defects: None and the empty list are false
Truthy(selected_defects) == selected_defects.given /\ selected_defects.ids # {}

\* a selection that keeps every defect of the inspection
SelectAllDefects(detections, selected_defects) == detections

\* [d for d in inspection_result["defects"] if d["id"] in selected_defects]
SelectDefects(detections, selected_defects) ==
    SelectSeq(detections, LAMBDA d : d.id \in selected_defects.ids)

\* "action": "created"; an action note is kept as the sequence of its parts
CreatedNote == <<"created">>

\* QCInspectorService.create_rework_job: the job dictionary
service_create_rework_job(detections, selected_defects, operator_notes, priority, assigned_station, t) ==
    [ defects |-> SelectDefects(detections, selected_defects),
      operator_notes |-> operator_notes,
      priority |-> priority,
      assigned_station |-> assigned_station,
      status |-> "pending",
      created_at |-> t,
      lifecycle |-> << [ timestamp |-> t,
                         status |-> "pending",
                         action |-> CreatedNote,
                         notes |-> "Rework job created from QC inspection" ] >> ]

\* key=lambda x: {"low": 1, "medium": 2, "high": 3}.get(x, 0)
SeverityKey(x) ==
    CASE x = "low" -> 1
      [] x = "medium" -> 2
      [] x = "high" -> 3
      [] OTHER -> 0

\* max((d["severity"] for d in defects), key=...), for a non-empty list
MaxSeverity(defects) ==
    LET first(i) == \A j \in 1..Len(defects) :
                        /\ SeverityKey(defects[j].severity) <= SeverityKey(defects[i].severity)
                        /\ (j < i => SeverityKey(defects[j].severity) < SeverityKey(defects[i].severity))
    IN  defects[CHOOSE i \in 1..Len(defects) : first(i)].severity

\* set(d["type"] for d in defects), which ", ".join writes in the set's order
DefectTypes(defects) == { defects[i].type : i \in 1..Len(defects) }

\* ReworkJob(...) as the endpoints store it, with the column defaults
NewReworkJob(id, job, defect_description, assigned_to_station, priority, t) ==
    [ id |-> id,
      defect_type |-> DefectTypes(job.defects),
      defect_severity |-> MaxSeverity(job.defects),
      defect_description |-> defect_description,
      assigned_to_station |-> assigned_to_station,
      priority |-> priority,
      status |-> "pending",
      created_at |-> t,
      assigned_at |-> Null,
      completed_at |-> Null,
      verified_at |-> Null,
      assigned_operator |-> None,
      verified_by |-> None,
      lifecycle_events |-> job.lifecycle ]

\* an inspection left without its back-reference
LinkNoReworkJob(inspection, id) == inspection

\* inspection.rework_job_id = rework_db.id
LinkReworkJob(inspection, id) == [inspection EXCEPT !.rework_job_id = id]

\* a close that writes the pending changes of the session
CloseCommitsPending(stored, pending) == pending

\* get_db closes the session in its finally; the changes a handler made to
\* a row and did not commit are dropped, and the stored row stays
CloseWithoutCommit(stored, pending) == stored

\* db.query(QCInspection).filter(QCInspection.id == id).first() finds a row
InspectionExists(id) == id \in 1..Len(qc_inspections)

\* db.query(ReworkJob).filter(ReworkJob.id == id).first() finds a row
ReworkJobExists(id) == id \in 1..Len(rework_jobs)

(***************************************************************************)
(* The endpoints over the tables (specification Spec).  Every call is one  *)
(* step: it ticks the clock and leaves its request and its response.       *)
(***************************************************************************)

\* Uploads sent to POST /inspect, each with the draws its detector makes:
\* an image whose four heuristic defects all clear the threshold, a CAD
\* file with a low, a medium and a high defect, a CAD file with two low
\* defects, a pdf without CAD reference whose only defect is filtered out,
\* and a file that is neither CAD, pdf nor a readable image.
Uploads ==
    { [ valid |-> TRUE, file_type |-> "image", has_cad_file |-> TRUE,
        force_simulated |-> FALSE, analysis_fails |-> FALSE,
        draws |-> << HeuristicDraw(930, 940, 10, 300, 400, 100, 100),
                     HeuristicDraw(934, 944, 30, 0, 0, 20, 20),
                     HeuristicDraw(952, 961, 50, 500, 200, 160, 150),
                     HeuristicDraw(970, 980, 30, 900, 900, 200, 200) >> ],
      [ valid |-> TRUE, file_type |-> "cad", has_cad_file |-> TRUE,
        force_simulated |-> FALSE, analysis_fails |-> FALSE,
        draws |-> << SimulatedDraw(750, 1, 204, 204, 51, 51),
                     SimulatedDraw(820, 6, 700, 300, 140, 60),
                     SimulatedDraw(950, 5, 819, 512, 153, 51) >> ],
      [ valid |-> TRUE, file_type |-> "cad", has_cad_file |-> TRUE,
        force_simulated |-> TRUE, analysis_fails |-> FALSE,
        draws |-> << SimulatedDraw(774, 2, 819, 819, 153, 153),
                     SimulatedDraw(750, 1, 204, 204, 51, 51) >> ],
      [ valid |-> TRUE, file_type |-> "pdf", has_cad_file |-> FALSE,
        force_simulated |-> FALSE, analysis_fails |-> FALSE,
        draws |-> << SimulatedDraw(750, 1, 204, 204, 51, 51) >> ],
      [ valid |-> FALSE, file_type |-> "image", has_cad_file |-> TRUE,
        force_simulated |-> FALSE, analysis_fails |-> FALSE,
        draws |-> << >> ] }

\* what the detector of an upload returns for its draws
DetectedOf(upload) ==
    IF Detector(upload.file_type, use_simulated(upload.force_simulated, mode),
                upload.analysis_fails) = "heuristic"
    THEN HeuristicDefects(upload.draws)
    ELSE SimulatedDefects(upload.draws)

\* inspect_item after the trial check, for a user and an upload: validate
\* the upload, run inspect_file, commit the inspection, record the trial
\* usage.  The usage is recorded in MongoDB after the commit; when that
\* raises, the handler answers 500 and the committed inspection stays.
InspectUpload(user_id, upload) ==
    IF ~upload.valid
    THEN /\ response' = Response(400, Null, Null, None, None)
         /\ call' = NoCall
         /\ UNCHANGED <<qc_inspections, users>>
    ELSE LET simulated == use_simulated(upload.force_simulated, mode)
             detected == DetectedOf(upload)
             result == inspect_file(upload.file_type, upload.has_cad_file,
                                    simulated, detected, confidence_threshold)
             id == Len(qc_inspections) + 1
         IN  /\ call' = [ op |-> "inspect_file",
                          file_type |-> upload.file_type,
                          has_cad_file |-> upload.has_cad_file,
                          force_simulated |-> upload.force_simulated,
                          detector |-> Detector(upload.file_type, simulated,
                                                upload.analysis_fails),
                          draws |-> upload.draws,
                          detected |-> detected ]
             /\ qc_inspections' = Append(qc_inspections,
                                         NewInspection(id, user_id, result, now))
             /\ \E record_usage_raises \in BOOLEAN :
                    IF record_usage_raises
                    THEN /\ response' = Response(500, Null, Null, None, None)
                         /\ UNCHANGED users
                    ELSE /\ response' = Response(200, id, Null, None, result.status)
                         /\ users' = record_usage(user_id)

\* raise HTTPException(status_code=402, ...): the trials are used up
TrialLimitReached == Response(402, Null, Null, None, None)

\* POST /inspect, from the trial check to the usage record in one step
InspectItem ==
    /\ now <= MaxCalls
    /\ \E user_id \in DOMAIN users, upload \in Uploads :
         /\ request' = [op |-> "inspect", user_id |-> user_id, upload |-> upload]
         /\ IF ~check_trial_limit(users[user_id]).allowed
            THEN /\ response' = TrialLimitReached
                 /\ call' = NoCall
                 /\ UNCHANGED <<qc_inspections, users>>
            ELSE InspectUpload(user_id, upload)
    /\ now' = now + 1
    /\ UNCHANGED <<serviceVars, pc, report, rework_jobs, handlers>>

\* decisions an operator sends; "hold" is none of accept, rework, escalate
Decisions == {"accept", "rework", "escalate", "hold"}

\* operator_notes and is_false_positive of the triage requests
TriageRemarks ==
    { [operator_notes |-> "", is_false_positive |-> FALSE],
      [operator_notes |-> "recheck", is_false_positive |-> TRUE] }

\* selected_defects of a request on an inspection with n defects: absent,
\* empty, ids of the inspection, an id no defect has (0), and that id
\* beside a known one
Selections(n) ==
    {NotSelected} \cup
    { Selected(ids \cap (0..n)) : ids \in {{}, {0}, {1}, {1, 2}, {2, 0}, 1..n} }

\* the selections sent for an inspection id; the id after the last row is absent
SelectionsFor(id) ==
    Selections(IF InspectionExists(id) THEN Len(qc_inspections[id].detections) ELSE 1)

TriageRequestsFor(id) ==
    { [ op |-> "triage", inspection_id |-> id, decision |-> dec,
        operator_notes |-> rem.operator_notes,
        is_false_positive |-> rem.is_false_positive,
        selected_defects |-> sel ] :
        dec \in Decisions, rem \in TriageRemarks, sel \in SelectionsFor(id) }

TriageRequests == UNION { TriageRequestsFor(id) : id \in 1..(Len(qc_inspections) + 1) }

\* a branch taken for any non-empty selection, whatever the decision
TakesReworkBranchOnSelection(req) == Truthy(req.selected_defects)

\* the rework branch of triage is taken
TakesReworkBranch(req) == req.decision = "rework" /\ Truthy(req.selected_defects)

\* POST /triage
TriageInspection ==
    /\ now <= MaxCalls
    /\ \E req \in TriageRequests :
         /\ request' = req
         /\ IF ~InspectionExists(req.inspection_id)
            THEN /\ response' = NotFound
                 /\ call' = NoCall
                 /\ UNCHANGED <<qc_inspections, rework_jobs>>
            ELSE LET inspection == qc_inspections[req.inspection_id]
                     triaged == [inspection EXCEPT
                                    !.operator_decision = req.decision,
                                    !.operator_notes = req.operator_notes,
                                    !.is_false_positive = req.is_false_positive]
                 IN  IF TakesReworkBranch(req)
                     THEN LET job == service_create_rework_job(
                                         inspection.detections, req.selected_defects,
                                         req.operator_notes, "medium", "", now)
                              id == Len(rework_jobs) + 1
                          IN  /\ call' = [op |-> "create_rework_job", rework_job |-> job]
                              /\ IF Len(job.defects) = 0
                                 THEN \* max() of no severities raises: 500, the
                                      \* session is closed without a commit
                                      /\ response' = Response(500, Null, Null, None, None)
                                      /\ qc_inspections' =
                                            [qc_inspections EXCEPT ![req.inspection_id] =
                                                CloseWithoutCommit(inspection, triaged)]
                                      /\ UNCHANGED rework_jobs
                                 ELSE /\ rework_jobs' = Append(rework_jobs,
                                            NewReworkJob(id, job, req.operator_notes,
                                                         job.assigned_station, job.priority, now))
                                      /\ qc_inspections' =
                                            [qc_inspections EXCEPT ![req.inspection_id] =
                                                LinkReworkJob(triaged, id)]
                                      /\ response' = Response(200, inspection.id, id,
                                                              req.decision, None)
                     ELSE /\ qc_inspections' =
                                [qc_inspections EXCEPT ![req.inspection_id] = triaged]
                          /\ call' = NoCall
                          /\ UNCHANGED rework_jobs
                          /\ response' = Response(200, inspection.id, Null,
                                                  req.decision, None)
    /\ now' = now + 1
    /\ UNCHANGED <<serviceVars, pc, report, users, handlers>>

\* priority and assigned_station of the POST /rework requests
ReworkAssignments ==
    { [priority |-> "medium", assigned_station |-> ""],
      [priority |-> "critical", assigned_station |-> "bench-2"] }

CreateReworkRequestsFor(id) ==
    { [ op |-> "rework", inspection_id |-> id, selected_defects |-> sel,
        operator_notes |-> "rework", priority |-> a.priority,
        assigned_station |-> a.assigned_station ] :
        a \in ReworkAssignments, sel \in SelectionsFor(id) \ {NotSelected} }

CreateReworkRequests ==
    UNION { CreateReworkRequestsFor(id) : id \in 1..(Len(qc_inspections) + 1) }

\* POST /rework
CreateReworkJob ==
    /\ now <= MaxCalls
    /\ \E req \in CreateReworkRequests :
         /\ request' = req
         /\ IF ~InspectionExists(req.inspection_id)
            THEN /\ response' = NotFound
                 /\ call' = NoCall
                 /\ UNCHANGED <<qc_inspections, rework_jobs>>
            ELSE LET inspection == qc_inspections[req.inspection_id]
                     job == service_create_rework_job(
                                inspection.detections, req.selected_defects,
                                req.operator_notes, req.priority, req.assigned_station, now)
                     id == Len(rework_jobs) + 1
                 IN  /\ call' = [op |-> "create_rework_job", rework_job |-> job]
                     /\ IF Len(job.defects) = 0
                        THEN \* max() of no severities raises, as in triage
                             /\ response' = Response(500, Null, Null, None, None)
                             /\ UNCHANGED <<qc_inspections, rework_jobs>>
                        ELSE /\ rework_jobs' = Append(rework_jobs,
                                   NewReworkJob(id, job, req.operator_notes,
                                                req.assigned_station, req.priority, now))
                             /\ qc_inspections' =
                                   [qc_inspections EXCEPT ![req.inspection_id] =
                                       LinkReworkJob(inspection, id)]
                             /\ response' = Response(200, inspection.id, id, None, None)
    /\ now' = now + 1
    /\ UNCHANGED <<serviceVars, pc, report, users, handlers>>

\* the service as config.py configures it by default, and empty tables
Init ==
    /\ mode = "simulated"
    /\ confidence_threshold = qc_confidence_threshold
    /\ pc = "idle"
    /\ call = NoCall
    /\ report = NoReport
    /\ qc_inspections = << >>
    /\ rework_jobs = << >>
    /\ users = [user_id \in {"mei"} |-> NewUser("trial")]
    /\ handlers = NoHandlers
    /\ request = NoRequest
    /\ response = NoResponse
    /\ now = 1

Next == InspectItem \/ TriageInspection \/ CreateReworkJob

Spec == Init /\ [][Next]_vars

(***************************************************************************)
(* PATCH /rework/{rework_job_id} (specification SpecRework): the rework    *)
(* job lifecycle, from tables that hold two jobs of one inspection.        *)
(***************************************************************************)

\* update calls a behaviour of SpecRework makes
MaxUpdates == 3

\* the statuses a rework job is meant to take, in their order
ReworkStatuses == <<"pending", "in_progress", "completed", "verified">>

\* statuses an operator sends; "scrapped" is none of the four
RequestedStatuses == {"pending", "in_progress", "completed", "verified", "scrapped"}

\* operator and notes of the update requests
UpdateRemarks ==
    { [operator |-> "ana", notes |-> ""],
      [operator |-> "raj", notes |-> "repolished"] }

\* the id after the last row is absent
UpdateReworkRequests ==
    { [ op |-> "update", rework_job_id |-> id, status |-> st,
        operator |-> rem.operator, notes |-> rem.notes ] :
        id \in 1..(Len(rework_jobs) + 1), st \in RequestedStatuses, rem \in UpdateRemarks }

\* f"Status changed from {old_status} to {request.status}"
StatusChangeNote(old_status, status) == <<"Status changed from", old_status, "to", status>>

\* a timestamp branch without the "not yet set" guards
StampTransitionUnguarded(rework, req, t) ==
    IF req.status = "in_progress"
    THEN [rework EXCEPT !.assigned_at = t, !.assigned_operator = req.operator]
    ELSE IF req.status = "completed"
    THEN [rework EXCEPT !.completed_at = t]
    ELSE IF req.status = "verified"
    THEN [rework EXCEPT !.verified_at = t, !.verified_by = req.operator]
    ELSE rework

\* the timestamp branch of update_rework_job
StampTransition(rework, req, t) ==
    IF req.status = "in_progress" /\ rework.assigned_at = Null
    THEN [rework EXCEPT !.assigned_at = t, !.assigned_operator = req.operator]
    ELSE IF req.status = "completed" /\ rework.completed_at = Null
    THEN [rework EXCEPT !.completed_at = t]
    ELSE IF req.status = "verified" /\ rework.verified_at = Null
    THEN [rework EXCEPT !.verified_at = t, !.verified_by = req.operator]
    ELSE rework

\* an event whose note reads the status after it was assigned
LifecycleEventAfterAssignment(old_status, req, t) ==
    [ timestamp |-> t,
      status |-> req.status,
      operator |-> req.operator,
      action |-> StatusChangeNote(req.status, req.status),
      notes |-> req.notes ]

\* the lifecycle event of an update
LifecycleEvent(old_status, req, t) ==
    [ timestamp |-> t,
      status |-> req.status,
      operator |-> req.operator,
      action |-> StatusChangeNote(old_status, req.status),
      notes |-> req.notes ]

\* an update that logs an event only when the status changes
UpdatedReworkJobLogsChanges(rework, req, t) ==
    [ StampTransition(rework, req, t) EXCEPT
        !.status = req.status,
        !.lifecycle_events =
            IF req.status = rework.status
            THEN rework.lifecycle_events
            ELSE Append(rework.lifecycle_events, LifecycleEvent(rework.status, req, t)) ]

\* the row update_rework_job commits: the requested status, the timestamps
\* of a first arrival, and the lifecycle list with the new event appended
\* (the handler assigns the extended list to the column before db.commit())
UpdatedReworkJob(rework, req, t) ==
    [ StampTransition(rework, req, t) EXCEPT
        !.status = req.status,
        !.lifecycle_events = Append(rework.lifecycle_events,
                                    LifecycleEvent(rework.status, req, t)) ]

\* PATCH /rework/{rework_job_id}
UpdateReworkJob ==
    /\ now <= MaxCalls + MaxUpdates
    /\ \E req \in UpdateReworkRequests :
         /\ request' = req
         /\ IF ~ReworkJobExists(req.rework_job_id)
            THEN /\ response' = NotFound
                 /\ UNCHANGED rework_jobs
            ELSE /\ rework_jobs' =
                       [rework_jobs EXCEPT ![req.rework_job_id] =
                           UpdatedReworkJob(rework_jobs[req.rework_job_id], req, now)]
                 /\ response' = Response(200, Null, req.rework_job_id, None, req.status)
    /\ now' = now + 1
    /\ UNCHANGED <<serviceVars, inspectVars, qc_inspections, users, handlers>>

\* The tables after POST /inspect by a trial user of a CAD file with a low,
\* a medium and a high defect and two POST /triage calls with decision rework, the first
\* selecting defect 1, the second defects 1 and 2.
InitRework ==
    /\ mode = "simulated"
    /\ confidence_threshold = qc_confidence_threshold
    /\ pc = "idle"
    /\ call = NoCall
    /\ report = NoReport
    /\ LET detected == SimulatedDefects(<< SimulatedDraw(750, 1, 204, 204, 51, 51),
                                           SimulatedDraw(820, 6, 700, 300, 140, 60),
                                           SimulatedDraw(950, 5, 819, 512, 153, 51) >>)
           result == inspect_file("cad", TRUE, TRUE, detected, confidence_threshold)
           inspection == NewInspection(1, "mei", result, 1)
           job(id, ids, t) ==
               NewReworkJob(id,
                            service_create_rework_job(inspection.detections, Selected(ids),
                                                      "recheck", "medium", "", t),
                            "recheck", "", "medium", t)
       IN  /\ qc_inspections = << [inspection EXCEPT !.operator_decision = "rework",
                                                     !.operator_notes = "recheck",
                                                     !.rework_job_id = 2] >>
           /\ rework_jobs = << job(1, {1}, 2), job(2, {1, 2}, 3) >>
    /\ users = [user_id \in {"mei"} |-> [NewUser("trial") EXCEPT !.used = 1]]
    /\ handlers = NoHandlers
    /\ request = NoRequest
    /\ response = NoResponse
    /\ now = MaxCalls + 1

NextRework == UpdateReworkJob

SpecRework == InitRework /\ [][NextRework]_vars

(***************************************************************************)
(* The four endpoints of the router together (specification SpecRouter),   *)
(* from empty tables.                                                      *)
(***************************************************************************)

\* PATCH /rework/{rework_job_id} among the first calls
UpdateStoredReworkJob ==
    /\ now <= MaxCalls
    /\ UpdateReworkJob

NextRouter == InspectItem \/ TriageInspection \/ CreateReworkJob \/ UpdateStoredReworkJob

SpecRouter == Init /\ [][NextRouter]_vars

(***************************************************************************)
(* POST /inspect with requests that interleave (specification SpecTrial).  *)
(* inspect_item checks the trial limit, then awaits file.read(), where     *)
(* another request can run, and records the usage at its end.              *)
(***************************************************************************)

\* the POST /inspect requests of the users
InspectRequests ==
    { [op |-> "inspect", user_id |-> user_id, upload |-> upload] :
        user_id \in DOMAIN users, upload \in Uploads }

\* inspect_item up to await file.read(): the trial check
CheckTrialLimit ==
    /\ \E h \in 1..MaxHandlers, req \in InspectRequests :
         /\ handlers[h].pc = "idle"
         /\ IF ~check_trial_limit(users[req.user_id]).allowed
            THEN /\ handlers' = [handlers EXCEPT ![h] = [pc |-> "done"]]
                 /\ request' = req
                 /\ response' = TrialLimitReached
            ELSE /\ handlers' = [handlers EXCEPT ![h] = [pc |-> "checked", request |-> req]]
                 /\ UNCHANGED <<request, response>>
    /\ UNCHANGED <<serviceVars, inspectVars, qc_inspections, rework_jobs, users, now>>

\* inspect_item from the read of the file to its end
FinishInspectItem ==
    /\ \E h \in 1..MaxHandlers :
         /\ handlers[h].pc = "checked"
         /\ handlers' = [handlers EXCEPT ![h] = [pc |-> "done"]]
         /\ request' = handlers[h].request
         /\ InspectUpload(handlers[h].request.user_id, handlers[h].request.upload)
    /\ now' = now + 1
    /\ UNCHANGED <<serviceVars, pc, report, rework_jobs>>

\* A trial user who has used two of the three trials, on two CAD files that
\* are stored, and a user of unlimited role who has inspected nothing.
InitTrial ==
    /\ mode = "simulated"
    /\ confidence_threshold = qc_confidence_threshold
    /\ pc = "idle"
    /\ call = NoCall
    /\ report = NoReport
    /\ LET detected == SimulatedDefects(<< SimulatedDraw(774, 2, 819, 819, 153, 153),
                                           SimulatedDraw(750, 1, 204, 204, 51, 51) >>)
           result == inspect_file("cad", TRUE, TRUE, detected, confidence_threshold)
       IN  qc_inspections = << NewInspection(1, "mei", result, 1),
                               NewInspection(2, "mei", result, 2) >>
    /\ rework_jobs = << >>
    /\ users = [ user_id \in {"mei", "omar"} |->
                   IF user_id = "mei"
                   THEN [NewUser("trial") EXCEPT !.used = 2]
                   ELSE NewUser("unlimited") ]
    /\ handlers = NoHandlers
    /\ request = NoRequest
    /\ response = NoResponse
    /\ now = 3

NextTrial == CheckTrialLimit \/ FinishInspectItem

SpecTrial == InitTrial /\ [][NextTrial]_vars

(***************************************************************************)
(* PATCH /rework/{rework_job_id} with requests that interleave             *)
(* (specification SpecReworkRace): each handler loads the row in a session *)
(* of its own and commits later; nothing locks the row in between.         *)
(***************************************************************************)

\* The row an UPDATE leaves: the columns the session changed on the row it
\* loaded are written, the others keep what is stored.
CommitChanges(stored, loaded, updated) ==
    [ column \in DOMAIN stored |->
        IF updated[column] # loaded[column] THEN updated[column] ELSE stored[column] ]

\* update_rework_job up to the row it reads
LoadReworkJob ==
    /\ \E h \in 1..MaxHandlers, req \in UpdateReworkRequests :
         /\ handlers[h].pc = "idle"
         /\ IF ~ReworkJobExists(req.rework_job_id)
            THEN /\ handlers' = [handlers EXCEPT ![h] =
                                     [pc |-> "done", request |-> req, found |-> FALSE]]
                 /\ request' = req
                 /\ response' = NotFound
            ELSE /\ handlers' = [handlers EXCEPT ![h] =
                                     [pc |-> "loaded", request |-> req,
                                      rework |-> rework_jobs[req.rework_job_id]]]
                 /\ UNCHANGED <<request, response>>
    /\ UNCHANGED <<serviceVars, inspectVars, qc_inspections, rework_jobs, users, now>>

\* update_rework_job from the row it read to db.commit()
CommitReworkJob ==
    /\ \E h \in 1..MaxHandlers :
         /\ handlers[h].pc = "loaded"
         /\ LET req == handlers[h].request
                loaded == handlers[h].rework
            IN  /\ rework_jobs' =
                       [rework_jobs EXCEPT ![req.rework_job_id] =
                           CommitChanges(rework_jobs[req.rework_job_id], loaded,
                                         UpdatedReworkJob(loaded, req, now))]
                /\ handlers' = [handlers EXCEPT ![h] =
                                    [pc |-> "done", request |-> req, found |-> TRUE]]
                /\ request' = req
                /\ response' = Response(200, Null, req.rework_job_id, None, req.status)
    /\ now' = now + 1
    /\ UNCHANGED <<serviceVars, inspectVars, qc_inspections, users>>

NextReworkRace == LoadReworkJob \/ CommitReworkJob

SpecReworkRace == InitRework /\ [][NextReworkRace]_vars

(***************************************************************************)
(* Properties of inspect_file (specification SpecInspect)                  *)
(***************************************************************************)

Returned == pc = "returned"

\* the detector's defect a reported defect stems from
RawOf(d) == call.detected[d.id]

SeveritiesOf(defects) == { defects[i].severity : i \in 1..Len(defects) }

\* C1: every defect of a returned report carries its adjusted confidence,
\* and that confidence is at least the configured threshold, for every file
\* type, has_cad_file and detector.
C1_ReportedDefectsClearThreshold ==
    Returned =>
        \A i \in 1..Len(report.defects) :
            /\ report.defects[i].confidence >= confidence_threshold
            /\ report.defects[i].confidence =
                   RoundProduct(RawOf(report.defects[i]).confidence,
                                confidence_multiplier(call.file_type, call.has_cad_file))

\* C1 witness: a report that lost a defect to the filter and kept one whose
\* adjusted confidence is exactly the threshold
C1_Witness ==
    /\ Returned
    /\ Len(report.defects) < Len(call.detected)
    /\ \E i \in 1..Len(report.defects) :
           /\ report.defects[i].confidence = confidence_threshold
           /\ report.defects[i].adjusted_confidence

\* C2: the status is decided by the severities of the filtered defects with
\* strict precedence: passed iff none, failed iff some high, review iff some
\* medium and no high, passed_with_notes iff only low.
C2_StatusFollowsSeverities ==
    Returned =>
        LET sev == SeveritiesOf(report.defects) IN
        /\ report.status \in {"passed", "failed", "review", "passed_with_notes"}
        /\ (report.status = "passed") <=> (Len(report.defects) = 0)
        /\ (report.status = "failed") <=> ("high" \in sev)
        /\ (report.status = "review") <=> ("high" \notin sev /\ "medium" \in sev)
        /\ (report.status = "passed_with_notes") <=> (sev = {"low"})

\* C2 witness: a failed report that holds high, medium and low defects
C2_Witness ==
    /\ Returned
    /\ report.status = "failed"
    /\ SeveritiesOf(report.defects) = {"low", "medium", "high"}

\* C3: one multiplier applies to every defect of an inspection, by
\* precedence: 0.75 without a CAD file whatever the file type, else 0.85 for
\* pdf, 0.90 for image, 1.0 for cad; the reported confidence is the raw
\* confidence times that one multiplier, rounded to two decimals.
C3_OneMultiplierByPrecedence ==
    Returned =>
        LET m == IF ~call.has_cad_file THEN 75
                 ELSE IF call.file_type = "pdf" THEN 85
                 ELSE IF call.file_type = "image" THEN 90
                 ELSE 100
        IN  \A i \in 1..Len(report.defects) :
                report.defects[i].confidence =
                    RoundProduct(RawOf(report.defects[i]).confidence, m)

\* C3 witness: a pdf inspected without a CAD file reports a defect at 0.75
\* of its raw confidence, which the pdf multiplier would not give
C3_Witness ==
    /\ Returned
    /\ call.file_type = "pdf"
    /\ ~call.has_cad_file
    /\ \E i \in 1..Len(report.defects) :
           /\ report.defects[i].confidence = RoundProduct(RawOf(report.defects[i]).confidence, 75)
           /\ report.defects[i].confidence # RoundProduct(RawOf(report.defects[i]).confidence, 85)

\* the raw confidences of the detector's defects
RawConfidences == { call.detected[i].confidence : i \in 1..Len(call.detected) }

\* C16: every defect of the heuristic image detector, whose raw confidence
\* rounded to two decimals lies in 0.93..0.98, still clears the default
\* threshold 0.7 after the adjustment by 0.75 (no CAD file) or 0.90, so at
\* that threshold none of them is filtered out.
C16_HeuristicDefectsClearDefault ==
    (Returned /\ call.detector = "heuristic" /\ confidence_threshold = qc_confidence_threshold)
        => /\ RawConfidences \subseteq 93..98
           /\ confidence_multiplier(call.file_type, call.has_cad_file) \in {75, 90}
           /\ Len(report.defects) = Len(call.detected)
           /\ \A i \in 1..Len(report.defects) :
                  report.defects[i].confidence >= qc_confidence_threshold

\* C16 witness: without a CAD file four heuristic defects of raw confidence
\* 0.93, 0.95, 0.97 and 0.98 are all reported, the first at exactly 0.70
C16_Witness ==
    /\ Returned
    /\ call.detector = "heuristic"
    /\ ~call.has_cad_file
    /\ confidence_threshold = qc_confidence_threshold
    /\ Len(call.detected) = 4
    /\ RawConfidences = {93, 95, 97, 98}
    /\ Len(report.defects) = 4
    /\ report.defects[1].confidence = 70

\* the call inspected a CAD or PDF file, whose defects the randomized
\* generator makes (in ml mode through _detect_with_ml)
RandomGeneratorCall == Returned /\ call.file_type \in {"cad", "pdf"}

\* C17: the randomized generator emits 1 to 3 defects for a CAD or PDF
\* file, each with a raw confidence in 0.70..0.95 and the severity high
\* when the confidence is > 0.85, medium when it is > 0.75, low otherwise.
C17_RandomGeneratorCuts ==
    RandomGeneratorCall =>
        /\ Len(call.detected) \in 1..3
        /\ \A i \in 1..Len(call.detected) :
               LET u == call.draws[i].u IN
               /\ u \in 700..950
               /\ call.detected[i].confidence \in 70..95
               /\ call.detected[i].severity =
                      (IF u > 850 THEN "high" ELSE IF u > 750 THEN "medium" ELSE "low")

\* C17, amended: as above with the severity high when the confidence as
\* drawn, before it is rounded to two decimals, is > 0.88, medium when it is
\* > 0.78, low otherwise.
C17_RandomGeneratorCutsAmended ==
    RandomGeneratorCall =>
        /\ Len(call.detected) \in 1..3
        /\ \A i \in 1..Len(call.detected) :
               LET u == call.draws[i].u IN
               /\ u \in 700..950
               /\ call.detected[i].confidence \in 70..95
               /\ call.detected[i].severity =
                      (IF u > 880 THEN "high" ELSE IF u > 780 THEN "medium" ELSE "low")

\* C17 witness: a CAD file with three defects drawn at 0.774, 0.878 and
\* 0.882: low, medium and high, the last two both reported as 0.88
C17_Witness ==
    /\ RandomGeneratorCall
    /\ call.file_type = "cad"
    /\ Len(call.detected) = 3
    /\ call.draws[1].u = 774 /\ call.detected[1].severity = "low"
    /\ call.draws[2].u = 878 /\ call.detected[2].severity = "medium"
    /\ call.draws[3].u = 882 /\ call.detected[3].severity = "high"
    /\ call.detected[2].confidence = 88
    /\ call.detected[3].confidence = 88

\* C18: the no-penalty case is exactly file_type cad with has_cad_file:
\* there every reported confidence is the raw one, adjusted_confidence is
\* false and confidence_note is the high-confidence CAD message; in every
\* other case adjusted_confidence is true on every defect and the note is
\* another one.
C18_NoPenaltyOnlyForCad ==
    Returned =>
        LET cad_note == "High confidence: CAD file analysis provides precise measurements."
        IN  IF call.file_type = "cad" /\ call.has_cad_file
            THEN /\ report.confidence_note = cad_note
                 /\ \A i \in 1..Len(report.defects) :
                        /\ report.defects[i].confidence = RawOf(report.defects[i]).confidence
                        /\ ~report.defects[i].adjusted_confidence
            ELSE /\ report.confidence_note # cad_note
                 /\ \A i \in 1..Len(report.defects) : report.defects[i].adjusted_confidence

\* C18 witness: a CAD file with has_cad_file whose three defects are
\* reported at their raw confidences 0.75, 0.88 and 0.95, none adjusted
C18_Witness ==
    /\ Returned
    /\ call.file_type = "cad"
    /\ call.has_cad_file
    /\ report.confidence_note = "High confidence: CAD file analysis provides precise measurements."
    /\ Len(report.defects) = 3
    /\ \A i \in 1..3 : ~report.defects[i].adjusted_confidence
    /\ report.defects[1].confidence = 75 /\ call.detected[1].confidence = 75
    /\ report.defects[2].confidence = 88 /\ call.detected[2].confidence = 88
    /\ report.defects[3].confidence = 95 /\ call.detected[3].confidence = 95

\* C19: the adjustment changes only confidence and adjusted_confidence:
\* severity, type, label, bbox, id and description of a reported defect are
\* those the detector gave it, and no other field is added.
C19_AdjustmentKeepsOtherFields ==
    Returned =>
        \A i \in 1..Len(report.defects) :
            LET d == report.defects[i]
                raw == RawOf(d)
            IN  /\ d.severity = raw.severity
                /\ d.type = raw.type
                /\ d.label = raw.label
                /\ d.bbox = raw.bbox
                /\ d.id = raw.id
                /\ d.description = raw.description
                /\ DOMAIN d = DOMAIN raw \cup {"adjusted_confidence"}

\* C19 witness: a PDF without CAD file whose defect was detected at 0.95,
\* high, and is reported at 0.71, adjusted, still high and in the same place
C19_Witness ==
    /\ Returned
    /\ call.file_type = "pdf"
    /\ ~call.has_cad_file
    /\ \E i \in 1..Len(report.defects) :
           LET d == report.defects[i] IN
           /\ RawOf(d).confidence = 95
           /\ d.confidence = 71
           /\ d.adjusted_confidence
           /\ d.severity = "high"
           /\ d.bbox = RawOf(d).bbox

\* the confidence a detector drew for a defect, unrounded: the image
\* analysis draws again for a rectangle above 2% of the image
DrawnConfidence(detector, draw) ==
    IF detector = "heuristic"
    THEN IF draw.w * draw.h * 100 > DefaultResolution * DefaultResolution * 2
         THEN draw.u2 ELSE draw.u1
    ELSE draw.u

\* the severity the detector's thresholds give a confidence (in
\* thousandths): high above 0.88, medium above 0.78, and for the image
\* analysis high as well for a rectangle above 3% of the image
ThresholdSeverity(detector, draw, confidence) ==
    IF confidence > 880 THEN "high"
    ELSE IF /\ detector = "heuristic"
            /\ draw.w * draw.h * 100 > DefaultResolution * DefaultResolution * 3
         THEN "high"
    ELSE IF confidence > 780 THEN "medium"
    ELSE "low"

\* C20: in every returned report the severity of a defect is the one the
\* detector's thresholds assign to its current, adjusted confidence.
C20_SeverityFollowsConfidence ==
    Returned =>
        \A i \in 1..Len(report.defects) :
            LET d == report.defects[i] IN
            d.severity = ThresholdSeverity(call.detector, call.draws[d.id], d.confidence * 10)

\* C20, amended: in every returned report the severity of a defect is the
\* one the detector's thresholds assigned at detection time to the
\* confidence as drawn, before rounding and adjustment; it is not taken
\* anew when the confidence changes.
C20_SeverityFollowsDrawnConfidence ==
    Returned =>
        \A i \in 1..Len(report.defects) :
            LET d == report.defects[i]
                draw == call.draws[d.id]
            IN  d.severity = ThresholdSeverity(call.detector, draw,
                                               DrawnConfidence(call.detector, draw))

\* C20 witness: a CAD file inspected without has_cad_file whose defect was
\* drawn at 0.950 is reported at 0.71, where the thresholds give low, and it
\* is high
C20_Witness ==
    /\ Returned
    /\ call.file_type = "cad"
    /\ ~call.has_cad_file
    /\ \E i \in 1..Len(report.defects) :
           LET d == report.defects[i] IN
           /\ call.draws[d.id].u = 950
           /\ d.confidence = 71
           /\ ThresholdSeverity(call.detector, call.draws[d.id], d.confidence * 10) = "low"
           /\ d.severity = "high"

\* the call took the simulated branch for an image
SimulatedImageCall ==
    /\ Returned
    /\ call.file_type = "image"
    /\ use_simulated(call.force_simulated, mode)

\* C21: in simulated mode with image input the list handed to the
\* confidence adjustment has between 2 and 4 defects on every path.
C21_ImageListTwoToFour ==
    SimulatedImageCall => Len(call.detected) \in 2..4

\* C21, amended: in simulated mode with image input the list handed to the
\* confidence adjustment has between 2 and 4 defects when the image
\* analysis succeeds, and between 1 and 3, from the randomized generator,
\* on the path where the analysis raises.
C21_ImageListByPath ==
    SimulatedImageCall =>
        IF call.detector = "heuristic"
        THEN Len(call.detected) \in 2..4
        ELSE call.detector = "random" /\ Len(call.detected) \in 1..3

\* C21 witness: the analysis of an image succeeded in forced simulated mode
\* and handed over two defects, the fewest it makes
C21_Witness ==
    /\ SimulatedImageCall
    /\ mode = "ml"
    /\ call.force_simulated
    /\ call.detector = "heuristic"
    /\ Len(call.detected) = 2

\* C22: the simulated branch is taken iff force_simulated is true or the
\* configured mode is simulated, and detection_mode is then simulated;
\* otherwise the ML branch is taken, detection_mode is ml and the defects
\* are those the randomized generator of the CAD/PDF simulated path makes
\* of its draws, for an image as for a CAD or PDF file.
C22_DetectorSelection ==
    Returned =>
        IF call.force_simulated \/ mode = "simulated"
        THEN /\ call.detector \in {"heuristic", "random"}
             /\ report.detection_mode = "simulated"
        ELSE /\ call.detector = "ml"
             /\ report.detection_mode = "ml"
             /\ call.draws \in DrawSeqs(SimulatedDraws, 1, 3)
             /\ call.detected = SimulatedDefects(call.draws)

\* C22 witness: in ml mode, not forced, an image came back with
\* detection_mode ml and the one defect the randomized generator made of a
\* draw of 0.750 and the first defect type, a low scratch
C22_Witness ==
    /\ Returned
    /\ mode = "ml"
    /\ ~call.force_simulated
    /\ call.file_type = "image"
    /\ report.detection_mode = "ml"
    /\ Len(call.detected) = 1
    /\ call.draws[1] = SimulatedDraw(750, 1, 204, 204, 51, 51)
    /\ call.detected[1].type = "scratch"
    /\ call.detected[1].severity = "low"

\* the raw defects of the call whose adjusted confidence reaches the
\* threshold
Remaining ==
    { i \in 1..Len(call.detected) :
          RoundProduct(call.detected[i].confidence,
                       confidence_multiplier(call.file_type, call.has_cad_file))
              >= confidence_threshold }

\* C23: status and defect_count follow from the defects that remain after
\* the threshold filter alone: a raw defect whose adjusted confidence is
\* below the threshold counts for neither, whatever its severity, and when
\* none remains the status is passed and defect_count is 0.
C23_StatusOfRemainingDefects ==
    Returned =>
        LET sev == { call.detected[i].severity : i \in Remaining } IN
        /\ report.defect_count = Cardinality(Remaining)
        /\ report.status = IF Remaining = {} THEN "passed"
                           ELSE IF "high" \in sev THEN "failed"
                           ELSE IF "medium" \in sev THEN "review"
                           ELSE "passed_with_notes"
        /\ (Remaining = {}) => (report.status = "passed" /\ report.defect_count = 0)

\* C23 witness: without a CAD file at threshold 0.7 a low defect of raw
\* confidence 0.75 (0.56 adjusted) and a high one of 0.88 (0.66 adjusted)
\* are both filtered out, and the report is passed with no defects
C23_Witness ==
    /\ Returned
    /\ ~call.has_cad_file
    /\ confidence_threshold = qc_confidence_threshold
    /\ Len(call.detected) = 2
    /\ call.detected[1].confidence = 75 /\ call.detected[1].severity = "low"
    /\ call.detected[2].confidence = 88 /\ call.detected[2].severity = "high"
    /\ RoundProduct(75, 75) = 56 /\ RoundProduct(88, 75) = 66
    /\ report.status = "passed"
    /\ report.defect_count = 0

\* C27: when the heuristic image detector ran, every defect it made was
\* drawn above 0.88 and is high, so the report is passed or failed, never
\* review or passed_with_notes, at every threshold and with or without a
\* CAD file.
C27_HeuristicOnlyPassedOrFailed ==
    (Returned /\ call.detector = "heuristic") =>
        /\ \A i \in 1..Len(call.detected) :
               /\ DrawnConfidence("heuristic", call.draws[i]) > 880
               /\ call.detected[i].severity = "high"
        /\ report.status \in {"passed", "failed"}
        /\ (report.status = "failed") <=> (Len(report.defects) > 0)

\* C27 witness: at threshold 0.9 the four high defects of an image
\* inspected with a CAD file are all filtered out and the report is passed
C27_Witness ==
    /\ Returned
    /\ call.detector = "heuristic"
    /\ call.has_cad_file
    /\ confidence_threshold = 90
    /\ Len(call.detected) = 4
    /\ \A i \in 1..4 : call.detected[i].severity = "high"
    /\ report.defects = << >>
    /\ report.status = "passed"

(***************************************************************************)
(* Properties of the rework lifecycle (specification SpecRework)           *)
(***************************************************************************)

\* the place of a status in pending < in_progress < completed < verified
StatusRank(status) == CHOOSE i \in 1..Len(ReworkStatuses) : ReworkStatuses[i] = status

IsReworkStatus(status) == \E i \in 1..Len(ReworkStatuses) : ReworkStatuses[i] = status

JobIds == 1..Len(rework_jobs)

\* the step is an update call that found job j
UpdatesJob(j) ==
    /\ request'.op = "update"
    /\ request'.rework_job_id = j
    /\ now' = now + 1

\* C4: no update call moves a job to an earlier status of
\* pending < in_progress < completed < verified.
C4_NeverMovesBackward ==
    [][ \A j \in JobIds :
            (IsReworkStatus(rework_jobs[j].status) /\ IsReworkStatus(rework_jobs'[j].status))
                => StatusRank(rework_jobs'[j].status) >= StatusRank(rework_jobs[j].status) ]_vars

\* C5: an update call whose status is none of the four is
\* answered with an error and leaves the job as it was.
C5_UnknownStatusRejected ==
    [][ \A j \in JobIds :
            (UpdatesJob(j) /\ ~IsReworkStatus(request'.status))
                => /\ response'.status_code # 200
                   /\ rework_jobs'[j] = rework_jobs[j] ]_vars

IsCreationEvent(e) == e.status = "pending" /\ e.action = <<"created">>

\* a job starts with the one creation event (pending, created)
C6_CreatedWithOneEvent ==
    \A j \in JobIds :
        /\ Len(rework_jobs[j].lifecycle_events) = 1
        /\ IsCreationEvent(rework_jobs[j].lifecycle_events[1])

\* an update call on job j appends one event with the requested status
\* behind the events already there; no other step touches the list
C6_UpdateAppendsOneEvent ==
    \A j \in JobIds :
        LET old == rework_jobs[j].lifecycle_events
            new == rework_jobs'[j].lifecycle_events
        IN  IF UpdatesJob(j)
            THEN /\ Len(new) = Len(old) + 1
                 /\ SubSeq(new, 1, Len(old)) = old
                 /\ new[Len(new)].status = request'.status
                 /\ new[Len(new)].operator = request'.operator
            ELSE new = old

EventsTargeting(j, status) ==
    { i \in 2..Len(rework_jobs[j].lifecycle_events) :
          rework_jobs[j].lifecycle_events[i].status = status }

\* the step is the first update of job j that asks for status
FirstTargeting(j, status) ==
    UpdatesJob(j) /\ request'.status = status /\ EventsTargeting(j, status) = {}

\* timestamp column ts is unset until an update of job j asks for status,
\* is written by the first such update and by no other step
StampedOnce(j, status, ts) ==
    /\ (rework_jobs[j][ts] = Null) <=> (EventsTargeting(j, status) = {})
    /\ IF FirstTargeting(j, status)
       THEN rework_jobs'[j][ts] = now /\ rework_jobs'[j][ts] # Null
       ELSE rework_jobs'[j][ts] = rework_jobs[j][ts]

\* operator column by is written by the first update of job j that asks
\* for status and by no other step
SignedOnce(j, status, by) ==
    IF FirstTargeting(j, status)
    THEN rework_jobs'[j][by] = request'.operator
    ELSE rework_jobs'[j][by] = rework_jobs[j][by]

\* C7: assigned_at and assigned_operator are written by the first update
\* that asks for in_progress, completed_at by the first that asks for
\* completed, verified_at and verified_by by the first that asks for
\* verified, and none of them changes in any other step.
C7_TimestampsWriteOnce ==
    [][ \A j \in JobIds :
            /\ StampedOnce(j, "in_progress", "assigned_at")
            /\ SignedOnce(j, "in_progress", "assigned_operator")
            /\ StampedOnce(j, "completed", "completed_at")
            /\ StampedOnce(j, "verified", "verified_at")
            /\ SignedOnce(j, "verified", "verified_by") ]_vars

\* C7 witness: a job that two operators moved to in_progress, with a move
\* to completed in between, still assigned to the first at the first time
C7_Witness ==
    \E j \in JobIds :
        LET ev == rework_jobs[j].lifecycle_events IN
        /\ Len(ev) = 4
        /\ ev[2].status = "in_progress"
        /\ ev[3].status = "completed"
        /\ ev[4].status = "in_progress"
        /\ ev[4].operator # ev[2].operator
        /\ rework_jobs[j].assigned_operator = ev[2].operator
        /\ rework_jobs[j].assigned_at = ev[2].timestamp
        /\ rework_jobs[j].completed_at = ev[3].timestamp

\* the last lifecycle event of a job
LastEvent(job) == job.lifecycle_events[Len(job.lifecycle_events)]

\* the last event of every job carries the job's status
C24_LastEventCarriesStatus ==
    \A j \in JobIds : LastEvent(rework_jobs[j]).status = rework_jobs[j].status

\* the event an update call on job j appends names the status the job had
\* before the call and the status the call asked for
C24_NoteNamesBothStatuses ==
    \A j \in JobIds :
        UpdatesJob(j) =>
            LastEvent(rework_jobs'[j]).action =
                <<"Status changed from", rework_jobs[j].status, "to", request'.status>>

C26_TimestampsFollowOrder ==
    \A j \in JobIds :
        LET job == rework_jobs[j] IN
        /\ (job.verified_at # Null) => (job.completed_at # Null)
        /\ (job.completed_at # Null) => (job.assigned_at # Null)
        /\ (job.status = "verified") => (job.completed_at # Null)
        /\ (job.status = "completed") => (job.assigned_at # Null)

(***************************************************************************)
(* Properties of triage (specification Spec)                               *)
(***************************************************************************)

\* the step is a triage call on a stored inspection
TriagesInspection ==
    /\ request'.op = "triage"
    /\ now' = now + 1
    /\ InspectionExists(request'.inspection_id)

DetectionIds(inspection) == { inspection.detections[i].id : i \in 1..Len(inspection.detections) }

\* the detections of an inspection whose id is among ids
DetectionsAmong(inspection, ids) ==
    { inspection.detections[i] : i \in { k \in 1..Len(inspection.detections) :
                                            inspection.detections[k].id \in ids } }

\* the last call, a triage or a POST /rework, stored a rework job
CreatedReworkJob ==
    /\ request.op \in {"triage", "rework"}
    /\ response.status_code = 200
    /\ response.rework_job_id # Null

\* C8: the defect_severity of a job just created is the highest severity,
\* under low < medium < high, among the defects of the inspection whose id
\* was selected, whatever the other defects are.
C8_SeverityIsMaxOfSelected ==
    CreatedReworkJob =>
        LET job == rework_jobs[response.rework_job_id]
            chosen == DetectionsAmong(qc_inspections[request.inspection_id],
                                      request.selected_defects.ids)
            rank == [sev \in {"low", "medium", "high"} |->
                        IF sev = "low" THEN 1 ELSE IF sev = "medium" THEN 2 ELSE 3]
        IN  /\ \E d \in chosen : d.severity = job.defect_severity
            /\ \A d \in chosen : rank[d.severity] <= rank[job.defect_severity]

\* C8 witness: a job of severity medium from an inspection that also holds
\* a high defect, which was not selected
C8_Witness ==
    /\ CreatedReworkJob
    /\ rework_jobs[response.rework_job_id].defect_severity = "medium"
    /\ \E i \in 1..Len(qc_inspections[request.inspection_id].detections) :
           /\ qc_inspections[request.inspection_id].detections[i].severity = "high"
           /\ qc_inspections[request.inspection_id].detections[i].id
                  \notin request.selected_defects.ids

\* C9: a triage call with decision rework and a non-empty selection of
\* defect ids of the inspection stores exactly one more rework job, built
\* from exactly the selected defects, in status pending, and leaves the
\* job's id in the inspection's rework_job_id.
C9_ReworkTriageCreatesOneJob ==
    [][ ( /\ TriagesInspection
          /\ request'.decision = "rework"
          /\ request'.selected_defects.given
          /\ request'.selected_defects.ids # {}
          /\ request'.selected_defects.ids
                 \subseteq DetectionIds(qc_inspections[request'.inspection_id]) )
        => LET inspection == qc_inspections[request'.inspection_id]
               chosen == DetectionsAmong(inspection, request'.selected_defects.ids)
               id == Len(rework_jobs) + 1
           IN  /\ response'.status_code = 200
               /\ response'.rework_job_id = id
               /\ Len(rework_jobs') = id
               /\ SubSeq(rework_jobs', 1, Len(rework_jobs)) = rework_jobs
               /\ rework_jobs'[id].status = "pending"
               /\ rework_jobs'[id].defect_type = { d.type : d \in chosen }
               /\ Len(call'.rework_job.defects) = Cardinality(request'.selected_defects.ids)
               /\ { call'.rework_job.defects[i] : i \in 1..Len(call'.rework_job.defects) } = chosen
               /\ qc_inspections'[request'.inspection_id].rework_job_id = id ]_vars

\* C9 witness: defects 1 and 2 of an inspection with four defects were
\* selected, and the inspection refers to the job made of those two
C9_Witness ==
    /\ request.op = "triage"
    /\ request.decision = "rework"
    /\ response.status_code = 200
    /\ Len(qc_inspections[request.inspection_id].detections) = 4
    /\ request.selected_defects.ids = {1, 2}
    /\ Len(call.rework_job.defects) = 2
    /\ Len(rework_jobs) = 1
    /\ rework_jobs[1].status = "pending"
    /\ qc_inspections[request.inspection_id].rework_job_id = 1

\* C10: a triage call with decision accept or escalate, or with decision
\* rework and no or an empty selection, records decision, notes and
\* false-positive flag on the inspection, stores no rework job and leaves
\* the inspection's rework_job_id and every rework job as they were.
C10_OtherTriageOnlyRecords ==
    [][ ( /\ TriagesInspection
          /\ \/ request'.decision \in {"accept", "escalate"}
             \/ /\ request'.decision = "rework"
                /\ (~request'.selected_defects.given \/ request'.selected_defects.ids = {}) )
        => LET old == qc_inspections[request'.inspection_id]
               new == qc_inspections'[request'.inspection_id]
           IN  /\ response'.status_code = 200
               /\ response'.rework_job_id = Null
               /\ new.operator_decision = request'.decision
               /\ new.operator_notes = request'.operator_notes
               /\ new.is_false_positive = request'.is_false_positive
               /\ new.rework_job_id = old.rework_job_id
               /\ rework_jobs' = rework_jobs ]_vars

\* C10 witness: an inspection that has a rework job was then escalated with
\* defects selected; the job and the reference are still the only ones
C10_Witness ==
    /\ request.op = "triage"
    /\ request.decision = "escalate"
    /\ request.selected_defects.ids # {}
    /\ response.status_code = 200
    /\ response.rework_job_id = Null
    /\ Len(rework_jobs) = 1
    /\ qc_inspections[request.inspection_id].rework_job_id = 1
    /\ qc_inspections[request.inspection_id].operator_decision = "escalate"
    /\ qc_inspections[request.inspection_id].is_false_positive

(***************************************************************************)
(* Properties of the endpoints over the tables (specification Spec)        *)
(***************************************************************************)

\* the step is a triage or POST /rework call on stored inspection i
AsksReworkOf(i) ==
    /\ request'.op \in {"triage", "rework"}
    /\ now' = now + 1
    /\ request'.inspection_id = i

\* C11: an inspection has at most one rework job at a time: a triage or
\* POST /rework call on an inspection that already refers to a rework job
\* stores no second job beside it (no call ever deletes a job).
C11_AtMostOneReworkJob ==
    [][ \A i \in 1..Len(qc_inspections) :
            (AsksReworkOf(i) /\ qc_inspections[i].rework_job_id # Null)
                => Len(rework_jobs') = Len(rework_jobs) ]_vars

\* C13: a triage call whose decision is none of accept, rework, escalate is
\* answered with an error and leaves the inspection (decision, notes,
\* false-positive flag, rework back-reference) as it was.
C13_UnknownDecisionRejected ==
    [][ (TriagesInspection /\ request'.decision \notin {"accept", "rework", "escalate"})
            => /\ response'.status_code # 200
               /\ qc_inspections'[request'.inspection_id] = qc_inspections[request'.inspection_id] ]_vars

\* the step is a POST /inspect call
Inspects ==
    /\ request'.op = "inspect"
    /\ now' = now + 1

\* C14: an inspect request either returns its report and has stored exactly
\* one inspection, or returns an error and has stored none.
C14_InspectIsAtomic ==
    [][ Inspects =>
            \/ /\ response'.status_code = 200
               /\ Len(qc_inspections') = Len(qc_inspections) + 1
               /\ SubSeq(qc_inspections', 1, Len(qc_inspections)) = qc_inspections
            \/ /\ response'.status_code # 200
               /\ qc_inspections' = qc_inspections ]_vars

\* the inspections a user has stored
InspectionsOf(user_id) ==
    { i \in 1..Len(qc_inspections) : qc_inspections[i].user_id = user_id }

\* an inspect request that stores an inspection adds one to its user's
\* counter, and one that stores none leaves every counter as it was
C29_CountsStoredInspection ==
    Inspects =>
        IF Len(qc_inspections') = Len(qc_inspections) + 1
        THEN users' = [users EXCEPT ![request'.user_id].used = @ + 1]
        ELSE /\ response'.status_code \in {400, 402, 500}
             /\ users' = users

\* C29: a user's qc_inspector counter grows by exactly one with each
\* inspect request that stores an inspection and is unchanged by a request
\* that is refused (402), rejected (400) or fails; the counter always
\* equals the number of the user's stored inspections.
C29_UsageCountsInspections ==
    /\ [][C29_CountsStoredInspection]_vars
    /\ [](\A user_id \in DOMAIN users :
              users[user_id].used = Cardinality(InspectionsOf(user_id)))

\* the step is a triage call with decision rework whose selection is not
\* empty and holds no id of a defect of the inspection
TriagesReworkOfUnknownDefects ==
    /\ TriagesInspection
    /\ request'.decision = "rework"
    /\ request'.selected_defects.given
    /\ request'.selected_defects.ids # {}
    /\ request'.selected_defects.ids
           \cap DetectionIds(qc_inspections[request'.inspection_id]) = {}

\* C30: a triage call with decision rework that selects only ids no defect
\* of the inspection has is answered with an error and persists nothing:
\* decision, notes, false-positive flag and rework back-reference of the
\* inspection stay, and no rework job is stored.
C30_UnknownDefectsPersistNothing ==
    [][ TriagesReworkOfUnknownDefects
            => /\ response'.status_code = 500
               /\ qc_inspections' = qc_inspections
               /\ rework_jobs' = rework_jobs ]_vars

\* C30 witness: an inspection that was escalated as a false positive was
\* then triaged to rework with the one id 0, which none of its defects
\* has: the answer is 500, the inspection is still escalated with its
\* notes and flag, without a back-reference, and no job is stored
C30_Witness ==
    /\ request.op = "triage"
    /\ request.decision = "rework"
    /\ request.selected_defects = Selected({0})
    /\ request.operator_notes = ""
    /\ ~request.is_false_positive
    /\ response.status_code = 500
    /\ InspectionExists(request.inspection_id)
    /\ Len(qc_inspections[request.inspection_id].detections) > 0
    /\ qc_inspections[request.inspection_id].operator_decision = "escalate"
    /\ qc_inspections[request.inspection_id].operator_notes = "recheck"
    /\ qc_inspections[request.inspection_id].is_false_positive
    /\ qc_inspections[request.inspection_id].rework_job_id = Null
    /\ rework_jobs = << >>

(***************************************************************************)
(* Properties of the router (specification SpecRouter)                     *)
(***************************************************************************)

\* the step is a call of kind op
Calls(op) ==
    /\ request'.op = op
    /\ now' = now + 1

\* C12: a triage or POST /rework call on an inspection id that is not
\* stored, and an update call on a rework job id that is not stored, are
\* answered 404 and leave both tables as they were.
C12_AbsentIdNotFound ==
    [][ /\ ((Calls("triage") \/ Calls("rework")) /\ ~InspectionExists(request'.inspection_id))
            => /\ response'.status_code = 404
               /\ UNCHANGED <<qc_inspections, rework_jobs>>
        /\ (Calls("update") /\ ~ReworkJobExists(request'.rework_job_id))
            => /\ response'.status_code = 404
               /\ UNCHANGED <<qc_inspections, rework_jobs>> ]_vars

\* C12 witness: with one inspection and its one rework job stored, an
\* update of job 2 was answered 404 and job 1 is still pending
C12_Witness ==
    /\ request.op = "update"
    /\ request.rework_job_id = 2
    /\ response.status_code = 404
    /\ Len(qc_inspections) = 1
    /\ Len(rework_jobs) = 1
    /\ rework_jobs[1].status = "pending"
    /\ Len(rework_jobs[1].lifecycle_events) = 1

(***************************************************************************)
(* Properties of the bounding boxes (specification SpecBBox)               *)
(***************************************************************************)

\* C15: the bbox of every defect either generator places lies within the
\* image, for every image of at least 1x1 pixel: 0 <= x, x + width <= image
\* width, 0 <= y, y + height <= image height.
C15_BBoxWithinImage ==
    Returned =>
        /\ 0 <= report.bbox.x
        /\ report.bbox.x + report.bbox.width <= call.width
        /\ 0 <= report.bbox.y
        /\ report.bbox.y + report.bbox.height <= call.height

\* C15 witness: in an image of one pixel the image analysis placed a
\* rectangle of 20 by 20 pixels left of and above the image, and the bbox
\* is the one pixel
C15_Witness ==
    /\ Returned
    /\ call.op = "analyze_image_for_defects"
    /\ call.width = 1 /\ call.height = 1
    /\ call.x = -10 /\ call.y = -10
    /\ call.w = 20 /\ call.h = 20
    /\ report.bbox = [x |-> 0, y |-> 0, width |-> 1, height |-> 1]

(***************************************************************************)
(* Properties of interleaved requests (specifications SpecReworkRace and    *)
(* SpecTrial)                                                              *)
(***************************************************************************)

\* the update requests on job j that have completed
CompletedUpdates(j) ==
    { h \in 1..MaxHandlers :
          /\ handlers[h].pc = "done"
          /\ handlers[h].found
          /\ handlers[h].request.rework_job_id = j }

\* the lifecycle of job j holds the event of the update handler h made
HoldsEventOf(j, h) ==
    \E k \in 2..Len(rework_jobs[j].lifecycle_events) :
        LET e == rework_jobs[j].lifecycle_events[k] IN
        /\ e.status = handlers[h].request.status
        /\ e.operator = handlers[h].request.operator
        /\ e.notes = handlers[h].request.notes

\* C25: when update requests on one rework job interleave, no event is
\* lost: once they have completed, the job's lifecycle_events holds the
\* event of each and is longer by one for each than the one creation
\* event it started with.
C25_NoEventLost ==
    \A j \in JobIds :
        /\ Len(rework_jobs[j].lifecycle_events) = 1 + Cardinality(CompletedUpdates(j))
        /\ \A h \in CompletedUpdates(j) : HoldsEventOf(j, h)

\* C28: the qc_inspector counter of a trial user (role not unlimited, not
\* admin) never exceeds the user's limit, also when inspect requests of the
\* user interleave between the trial check and the usage record.
C28_TrialsWithinLimit ==
    \A user_id \in DOMAIN users :
        (users[user_id].role # "unlimited" /\ ~users[user_id].is_admin)
            => users[user_id].used <= users[user_id].limit

====
